---- MODULE Spec2Model ----
(***************************************************************************)
(* A model of the two FenrirBackend implementations of fenrir-rs:          *)
(*   - UreqBackend (src/src/ureq.rs): one shared, immutable backend value  *)
(*     on which several threads call send concurrently;                    *)
(*   - NopBackend (src/src/noop.rs): the unit struct which ignores         *)
(*     everything.                                                         *)
(* A call of UreqBackend::send is split at its one blocking point, the     *)
(* HTTP round trip of send_string: SendCall runs the code up to the        *)
(* moment the request is on the wire, SendRespond / SendTimeout run the    *)
(* rest.  A panic (an unwrap on an Err) ends the calling thread's call     *)
(* without a return value.                                                 *)
(***************************************************************************)
EXTENDS Integers, Sequences, FiniteSets, TLC

(* ---------------------------------------------------------------- bounds *)
\* number of concurrent calls of UreqBackend::send
NumCalls == 2
\* number of NopBackend::send calls that are counted
MaxNopSends == 2

Calls == 1..NumCalls

(* ------------------------------------------------------- values and types *)
\* Option<T>
OptNone == [tag |-> "None", val |-> ""]
Some(v) == [tag |-> "Some", val |-> v]

\* Result<T, String>
Ok(v) == [tag |-> "Ok", val |-> v]
Err(m) == [tag |-> "Err", val |-> m]
Unit == "()"

\* crate::AuthenticationMethod
AuthenticationMethods == {"None", "Basic"}

\* an AuthenticationMethod as a returned value
Method(m) == [tag |-> "AuthenticationMethod", val |-> m]

\* the credential strings a backend is constructed with: none, the base64 of
\* "username:password" which the tests expect, and the base64 of "a:b"
CredentialStrings == {"", "dXNlcm5hbWU6cGFzc3dvcmQ=", "YTpi"}

\* url::Url, as far as join reads it: a hierarchical URL has a host and a
\* path of segments, a cannot-be-a-base URL (mailto:, data:) has an opaque
\* path and accepts no relative reference
Url(scheme, host, path, opaque) ==
    [scheme |-> scheme, host |-> host, path |-> path, cannot_be_a_base |-> opaque]

Endpoints ==
    { Url("https", "loki.example.com", <<>>, FALSE),
      Url("https", "loki.example.com", <<"tenant1">>, FALSE),
      Url("mailto", "", <<"ops@example.com">>, TRUE) }

RECURSIVE PathString(_)
PathString(segs) ==
    IF segs = <<>> THEN ""
    ELSE IF Len(segs) = 1 THEN segs[1]
    ELSE segs[1] \o "/" \o PathString(Tail(segs))

\* Url::as_str
UrlString(u) ==
    IF u.cannot_be_a_base
    THEN u.scheme \o ":" \o PathString(u.path)
    ELSE u.scheme \o "://" \o u.host \o "/" \o PathString(u.path)

\* the relative reference "/loki/api/v1/push": it starts with a slash, so
\* it is an absolute-path reference
PushPath == [absolute |-> TRUE, segments |-> <<"loki", "api", "v1", "push">>]

Front(s) == IF s = <<>> THEN <<>> ELSE SubSeq(s, 1, Len(s) - 1)

\* Url::join: resolves a relative reference against the base (RFC 3986
\* 5.2.2).  An absolute-path reference REPLACES the path of the base; a
\* relative-path reference replaces its last segment.  A cannot-be-a-base
\* URL yields ParseError::RelativeUrlWithCannotBeABaseBase.
Join(base, ref) ==
    IF base.cannot_be_a_base
    THEN Err("relative URL with a cannot-be-a-base base")
    ELSE IF ref.absolute
         THEN Ok([base EXCEPT !.path = ref.segments])
         ELSE Ok([base EXCEPT !.path = Front(base.path) \o ref.segments])

\* crate::Streams: an opaque batch
StreamBatches == {"[]", "[s1]"}

\* crate::SerializationFn values: one which succeeds, one which fails
Serializers == {"json", "failing"}

\* serializer(streams)
Serialize(serializer, streams) ==
    IF serializer = "json"
    THEN Ok("{\"streams\":" \o streams \o "}")
    ELSE Err("serialization failed")

\* what request.send_string returns when a response or a connection error
\* arrives: Ok(Response), Err(ureq::Error::Status), Err(ureq::Error::Transport)
Responses ==
    { Ok("200 OK"),
      Err("status code 500"),
      Err("Connection Failed: connection refused") }

\* what request.send_string returns when the agent's timeout of 10 seconds
\* ends the request
TimedOut == Err("Network Error: timed out")

(* ------------------------------------------------------------------ state *)
VARIABLES
    network,       \* the backend the builder built: "Ureq" or "Nop"
    backend,       \* the UreqBackend: endpoint, authentication, credentials
    sends,         \* per call of UreqBackend::send: the thread's local state
    netRequests,   \* number of HTTP requests put on the network so far
    nopRequested,  \* the authentication the builder was asked for (NopBackend)
    nopSends,      \* number of NopBackend::send calls so far
    ret            \* the value the latest accessor / NopBackend call returned

vars == <<network, backend, sends, netRequests, nopRequested, nopSends, ret>>

NoRequest == [method |-> "", url |-> "", headers |-> {}, body |-> ""]
NoValue == [tag |-> "none", val |-> ""]

IdleSend ==
    [pc |-> "idle", streams |-> "", serializer |-> "", request |-> NoRequest,
     attempts |-> 0, response |-> NoValue, result |-> NoValue, panic |-> ""]

(* ------------------------------------------------------------ UreqBackend *)
\* struct UreqBackend
UreqBackend(endpoint, authentication, credentials) ==
    [endpoint |-> endpoint, authentication |-> authentication,
     credentials |-> credentials]

\* the value of the variable backend when the NopBackend was built instead
NotBuilt == UreqBackend(Url("", "", <<>>, TRUE), "None", "")

\* UreqBackend::authentication_method
authentication_method(self) == self.authentication

\* UreqBackend::credentials
credentials(self) ==
    IF Len(self.credentials) > 0 THEN Some(self.credentials) ELSE OptNone

\* Request::set: sets a header, replacing a value already set; the headers
\* of a request are a set of <<name, value>> pairs
SetHeader(request, name, value) ==
    [request EXCEPT !.headers =
        {h \in request.headers : h[1] # name} \cup {<<name, value>>}]

\* the values a request carries for a header name
Header(request, name) == {h[2] : h \in {x \in request.headers : x[1] = name}}

NewRequest(method, url) ==
    [method |-> method, url |-> UrlString(url),
     headers |-> {}, body |-> ""]

\* a variant of BuildRequest which attaches the header whenever a
\* credential string is stored
BuildRequestByCredentials(self, post_url, text) ==
    LET r1 == SetHeader(NewRequest("POST", post_url), "Content-Type",
                        "application/json; charset=utf-8")
        r2 == IF Len(self.credentials) > 0
              THEN SetHeader(r1, "Authorization", "Basic " \o self.credentials)
              ELSE r1
    IN  [r2 EXCEPT !.body = text]

\* send, lines 28-40: the request as it is handed to send_string
BuildRequest(self, post_url, text) ==
    LET r1 == SetHeader(NewRequest("POST", post_url), "Content-Type",
                        "application/json; charset=utf-8")
        r2 == IF self.authentication = "Basic"
              THEN SetHeader(r1, "Authorization", "Basic " \o self.credentials)
              ELSE r1
    IN  [r2 EXCEPT !.body = text]

\* send, lines 42-47: the value send returns for a response
SendResult(response) ==
    IF response.tag = "Err" THEN Err(response.val) ELSE Ok(Unit)

\* a variant of SendCall which moves the credential string out of the
\* backend when it builds the header
SendCallTakingCredentials(c, streams, serializer) ==
    /\ network = "Ureq"
    /\ sends[c].pc = "idle"
    /\ LET text == Serialize(serializer, streams)
           post_url == Join(backend.endpoint, PushPath)
           called == [sends[c] EXCEPT !.streams = streams, !.serializer = serializer]
       IN  IF text.tag = "Err"
           THEN /\ sends' = [sends EXCEPT ![c] =
                        [called EXCEPT !.pc = "panicked", !.panic = "serializer"]]
                /\ UNCHANGED <<network, backend, netRequests>>
           ELSE IF post_url.tag = "Err"
           THEN /\ sends' = [sends EXCEPT ![c] =
                        [called EXCEPT !.pc = "panicked", !.panic = "join"]]
                /\ UNCHANGED <<network, backend, netRequests>>
           ELSE /\ sends' = [sends EXCEPT ![c] =
                        [called EXCEPT !.pc = "blocked",
                                       !.request = BuildRequest(backend, post_url.val, text.val),
                                       !.attempts = @ + 1]]
                /\ backend' = [backend EXCEPT !.credentials = ""]
                /\ netRequests' = netRequests + 1
    /\ UNCHANGED <<network, nopRequested, nopSends, ret>>

\* send, lines 19-40: a thread calls send(streams, serializer) and runs up to
\* the point where send_string has put the request on the network.  Each of
\* the two unwraps panics on an Err.
SendCall(c, streams, serializer) ==
    /\ network = "Ureq"
    /\ sends[c].pc = "idle"
    /\ LET text == Serialize(serializer, streams)
           post_url == Join(backend.endpoint, PushPath)
           called == [sends[c] EXCEPT !.streams = streams, !.serializer = serializer]
       IN  IF text.tag = "Err"
           THEN /\ sends' = [sends EXCEPT ![c] =
                        [called EXCEPT !.pc = "panicked", !.panic = "serializer"]]
                /\ UNCHANGED netRequests
           ELSE IF post_url.tag = "Err"
           THEN /\ sends' = [sends EXCEPT ![c] =
                        [called EXCEPT !.pc = "panicked", !.panic = "join"]]
                /\ UNCHANGED netRequests
           ELSE /\ sends' = [sends EXCEPT ![c] =
                        [called EXCEPT !.pc = "blocked",
                                       !.request = BuildRequest(backend, post_url.val, text.val),
                                       !.attempts = @ + 1]]
                /\ netRequests' = netRequests + 1
    /\ UNCHANGED <<network, backend, nopRequested, nopSends, ret>>

\* a variant of SendRespond which sends the request again when the attempt
\* failed
SendRespondRetrying(c, response) ==
    /\ network = "Ureq"
    /\ sends[c].pc = "blocked"
    /\ IF response.tag = "Err"
       THEN /\ sends' = [sends EXCEPT ![c] =
                    [@ EXCEPT !.response = response, !.attempts = @ + 1]]
            /\ netRequests' = netRequests + 1
       ELSE /\ sends' = [sends EXCEPT ![c] =
                    [@ EXCEPT !.pc = "returned", !.response = response,
                              !.result = SendResult(response)]]
            /\ UNCHANGED netRequests
    /\ UNCHANGED <<network, backend, nopRequested, nopSends, ret>>

\* send, lines 40-47: send_string returns with a response or an error of the
\* connection, and send returns to its caller
SendRespond(c, response) ==
    /\ network = "Ureq"
    /\ sends[c].pc = "blocked"
    /\ sends' = [sends EXCEPT ![c] =
            [@ EXCEPT !.pc = "returned", !.response = response,
                      !.result = SendResult(response)]]
    /\ UNCHANGED <<network, backend, netRequests, nopRequested, nopSends, ret>>

\* a variant of SendTimeout in which the timeout ends every request in
\* flight, as with one deadline shared by all the calls
SendTimeoutShared(c) ==
    /\ network = "Ureq"
    /\ sends[c].pc = "blocked"
    /\ sends' = [d \in Calls |->
            IF sends[d].pc = "blocked"
            THEN [sends[d] EXCEPT !.pc = "returned", !.response = TimedOut,
                                  !.result = SendResult(TimedOut)]
            ELSE sends[d]]
    /\ UNCHANGED <<network, backend, netRequests, nopRequested, nopSends, ret>>

\* send, lines 28 and 40-47: no response arrived within the timeout of the
\* agent built for this call; send_string returns the error and send returns
SendTimeout(c) ==
    /\ network = "Ureq"
    /\ sends[c].pc = "blocked"
    /\ sends' = [sends EXCEPT ![c] =
            [@ EXCEPT !.pc = "returned", !.response = TimedOut,
                      !.result = SendResult(TimedOut)]]
    /\ UNCHANGED <<network, backend, netRequests, nopRequested, nopSends, ret>>

\* a caller reads authentication_method()
CallAuthenticationMethod ==
    /\ network = "Ureq"
    /\ ret' = [op |-> "UreqBackend::authentication_method",
               val |-> Method(authentication_method(backend))]
    /\ UNCHANGED <<network, backend, sends, netRequests, nopRequested, nopSends>>

\* a caller reads credentials()
CallCredentials ==
    /\ network = "Ureq"
    /\ ret' = [op |-> "UreqBackend::credentials", val |-> credentials(backend)]
    /\ UNCHANGED <<network, backend, sends, netRequests, nopRequested, nopSends>>

(* ------------------------------------------------------------- NopBackend *)
\* what the tests ask the builder for before they build a NopBackend
NopRequests ==
    { [method |-> "None", username |-> "", password |-> ""],
      [method |-> "Basic", username |-> "username", password |-> "password"] }

\* the value of the variable nopRequested when the UreqBackend was built
NotRequested == [method |-> "", username |-> "", password |-> ""]

\* NopBackend::send
NopSendResult(streams) == Ok(Unit)

\* a variant of NopBackend::authentication_method which reports the method
\* the builder was asked for
NopAuthenticationMethodRequested == nopRequested.method

\* NopBackend::authentication_method
NopAuthenticationMethod == "None"

\* NopBackend::credentials
NopCredentials == OptNone

NopSend(streams) ==
    /\ network = "Nop"
    /\ nopSends < MaxNopSends
    /\ nopSends' = nopSends + 1
    /\ ret' = [op |-> "NopBackend::send", val |-> NopSendResult(streams)]
    /\ UNCHANGED <<network, backend, sends, netRequests, nopRequested>>

CallNopAuthenticationMethod ==
    /\ network = "Nop"
    /\ ret' = [op |-> "NopBackend::authentication_method",
               val |-> Method(NopAuthenticationMethod)]
    /\ UNCHANGED <<network, backend, sends, netRequests, nopRequested, nopSends>>

CallNopCredentials ==
    /\ network = "Nop"
    /\ ret' = [op |-> "NopBackend::credentials", val |-> NopCredentials]
    /\ UNCHANGED <<network, backend, sends, netRequests, nopRequested, nopSends>>

(* ---------------------------------------------------------- specification *)
\* the builder builds one backend: a UreqBackend from any endpoint, method and
\* credential string, or the NopBackend whatever authentication was asked for
Init ==
    /\ network \in {"Ureq", "Nop"}
    /\ backend \in IF network = "Ureq"
                    THEN { UreqBackend(e, a, s) :
                            e \in Endpoints, a \in AuthenticationMethods,
                            s \in CredentialStrings }
                    ELSE {NotBuilt}
    /\ sends = [c \in Calls |-> IdleSend]
    /\ netRequests = 0
    /\ nopRequested \in IF network = "Nop" THEN NopRequests ELSE {NotRequested}
    /\ nopSends = 0
    /\ ret = [op |-> "none", val |-> NoValue]

Next ==
    \/ \E c \in Calls, streams \in StreamBatches, serializer \in Serializers :
            SendCall(c, streams, serializer)
    \/ \E c \in Calls, response \in Responses : SendRespond(c, response)
    \/ \E c \in Calls : SendTimeout(c)
    \/ CallAuthenticationMethod
    \/ CallCredentials
    \/ \E streams \in StreamBatches : NopSend(streams)
    \/ CallNopAuthenticationMethod
    \/ CallNopCredentials

Spec == Init /\ [][Next]_vars

\* the timeout of the agent is a timer of the calling thread: once a request
\* is in flight it fires unless the response comes first
FairSpec == Spec /\ \A c \in Calls : WF_vars(SendTimeout(c))

(* ------------------------------------------------------------- properties *)
Blocked(c) == sends[c].pc = "blocked"
Returned(c) == sends[c].pc = "returned"
Panicked(c) == sends[c].pc = "panicked"
Ended(c) == Returned(c) \/ Panicked(c)

\* the URL the interface description names: the configured base endpoint
\* followed by the push path
EndpointFollowedByPushPath(endpoint) ==
    UrlString([endpoint EXCEPT !.path = endpoint.path \o PushPath.segments])

\* C1: credentials() of the HTTP backend returns a present value if and only
\* if authentication_method() is not None and the stored credential string
\* is non-empty.
C1_CredentialsIffAuthenticated ==
    ret.op = "UreqBackend::credentials" =>
        ((ret.val # OptNone)
            <=> (authentication_method(backend) # "None" /\ backend.credentials # ""))

\* C2: whatever authentication the builder was asked for, and after any
\* number of sends, the no-op backend reports the method None and no
\* credentials, every send returns success, and no send reaches the network.
C2_NopIgnoresEverything ==
    /\ ret.op = "NopBackend::authentication_method" => ret.val = Method("None")
    /\ ret.op = "NopBackend::credentials" => ret.val = OptNone
    /\ ret.op = "NopBackend::send" => ret.val = Ok(Unit)
    /\ \A streams \in StreamBatches : NopSendResult(streams) = Ok(Unit)
    /\ network = "Nop" => netRequests = 0

C2_Witness ==
    /\ nopRequested.method = "Basic"
    /\ nopSends = MaxNopSends
    /\ ret.op = "NopBackend::authentication_method"
    /\ ret.val = Method("None")

\* C3: a request issued by send carries an Authorization header if and only
\* if the method of the backend is Basic, and then its value is "Basic "
\* followed by the stored credential string, unchanged; with the method None
\* there is no such header, whatever credential string is stored.
C3_AuthorizationHeader ==
    \A c \in Calls :
        sends[c].attempts > 0 =>
            LET authorization == Header(sends[c].request, "Authorization") IN
            /\ (authorization # {}) <=> (backend.authentication = "Basic")
            /\ backend.authentication = "Basic" =>
                    authorization = {"Basic " \o backend.credentials}

C3_Witness ==
    \E c, d \in Calls :
        /\ sends[c].attempts > 0
        /\ backend.authentication = "Basic"
        /\ backend.credentials # ""
        /\ Header(sends[c].request, "Authorization") = {"Basic dXNlcm5hbWU6cGFzc3dvcmQ="}
        /\ Returned(d)

\* C4: when the serializer fails, send returns an error value to its caller:
\* it does not panic, and it issues no request.
C4_SerializerFailureIsReturned ==
    \A c \in Calls :
        (sends[c].pc # "idle" /\ Serialize(sends[c].serializer, sends[c].streams).tag = "Err")
            => /\ Returned(c)
               /\ sends[c].result.tag = "Err"
               /\ sends[c].attempts = 0

\* C5: when the base endpoint cannot be joined with the push path, send
\* returns an error to its caller: it does not panic, and it issues no
\* request.
C5_JoinFailureIsReturned ==
    \A c \in Calls :
        (/\ sends[c].pc # "idle"
         /\ Serialize(sends[c].serializer, sends[c].streams).tag = "Ok"
         /\ Join(backend.endpoint, PushPath).tag = "Err")
            => /\ Returned(c)
               /\ sends[c].result.tag = "Err"
               /\ sends[c].attempts = 0

\* the single attempt of a call: a POST with the JSON content type and the
\* output of the serializer as its body
IsPushRequest(c) ==
    /\ sends[c].request.method = "POST"
    /\ Header(sends[c].request, "Content-Type") = {"application/json; charset=utf-8"}
    /\ sends[c].request.body = Serialize(sends[c].serializer, sends[c].streams).val

\* send returns an error exactly when its attempt failed, and success exactly
\* when its attempt succeeded
ResultFollowsAttempt(c) ==
    /\ (Returned(c) /\ sends[c].result.tag = "Err")
            <=> (sends[c].attempts > 0 /\ sends[c].response.tag = "Err")
    /\ (Returned(c) /\ sends[c].result = Ok(Unit))
            <=> (sends[c].attempts > 0 /\ sends[c].response.tag = "Ok")

C7_SendsAreIndependent ==
    [][\A c \in Calls :
            sends'[c] # sends[c] =>
                /\ backend' = backend
                /\ \A d \in Calls \ {c} : sends'[d] = sends[d]
                /\ Returned(c)' => sends'[c].result = SendResult(sends'[c].response)
                /\ (Blocked(c) /\ ~Blocked(c)') =>
                        \/ sends'[c].response = TimedOut
                        \/ sends'[c].response \in Responses]_vars

C7_Witness ==
    \E c, d \in Calls :
        /\ Blocked(c)
        /\ Returned(d) /\ sends[d].result.tag = "Err"
        /\ sends[c].request = sends[d].request

\* C8: for every base endpoint that accepts a path, the URL send posts to is
\* the configured base endpoint followed by /loki/api/v1/push.
C8_PostUrlIsBaseFollowedByPushPath ==
    \A c \in Calls :
        sends[c].attempts > 0 =>
            sends[c].request.url = EndpointFollowedByPushPath(backend.endpoint)

\* C9: no operation changes the endpoint, the authentication method or the
\* credential string of the backend, so the accessors return after any
\* sequence of operations what they returned after construction.
C9_ConfigurationIsImmutable ==
    [][/\ backend' = backend
       /\ authentication_method(backend') = authentication_method(backend)
       /\ credentials(backend') = credentials(backend)
       /\ ret'.op = "UreqBackend::authentication_method"
            => ret'.val = Method(authentication_method(backend))
       /\ ret'.op = "UreqBackend::credentials"
            => ret'.val = credentials(backend)]_vars

C9_Witness ==
    /\ ret.op = "UreqBackend::credentials"
    /\ ret.val = Some("dXNlcm5hbWU6cGFzc3dvcmQ=")
    /\ \E c, d \in Calls :
            /\ Returned(c) /\ sends[c].result.tag = "Err"
            /\ Returned(d) /\ sends[d].result.tag = "Ok"

\* C10: every call of send eventually returns to its caller; a request
\* without a response is ended by the timeout and send returns the error.
C10_EverySendReturns ==
    \A c \in Calls : (sends[c].pc # "idle") ~> Returned(c)

\* the part of C10 which is about the timeout: a send whose request is in
\* flight returns, by its response or by the timeout
RequestInFlightReturns ==
    \A c \in Calls : Blocked(c) ~> Returned(c)

====
